---- MODULE Spec2Model ----
(***************************************************************************)
(* Model of the Buttplug device manager (server/device_manager.rs): the    *)
(* event loop built by wait_for_manager_events, the identification and     *)
(* event-forwarding tasks it spawns, the evmap device registry it writes,  *)
(* and the DeviceManager request paths that read the registry; and of the  *)
(* client event loop (client/internal.rs).                                 *)
(*   Spec          the device-manager loop, its tasks and registry readers *)
(*   SpecRequests  the DeviceManager object: scanning and stop-all requests*)
(*   SpecClient    the client event loop                                   *)
(*   SpecBridge    the Bluetooth LE hardware bridge (btleplug_hardware.rs) *)
(***************************************************************************)
EXTENDS Integers, Sequences, FiniteSets, TLC

(* ----------------------------- bounds ---------------------------------- *)
\* number of DeviceFound events the communication managers emit
MaxFound == 2
\* number of ScanningFinished events the communication managers emit
MaxScanFinished == 1
\* number of non-Removed events one device emits on its event stream
MaxOtherEvents == 1
\* number of parse_message calls issued by the server
MaxCalls == 1
\* number of communication managers added to a DeviceManager
MaxManagers == 2
\* number of scanning and stop-all requests made to a DeviceManager
MaxRequests == 2
\* highest device index the connector reports to the client
MaxClientIndex == 1
\* number of inputs the client loop is given besides message/reply-slot pairs: messages
\* of the connector, RequestDeviceList, HandleDeviceList and Disconnect of the
\* application, and closures of the two channels
MaxClientInputs == 2
\* number of entries of a DeviceList
MaxListLen == 2
\* number of notifications the peripheral sends to the bridge task
MaxNotifications == 2
\* number of central events the adapter sends to the bridge task
MaxCentralEvents == 2
\* number of subscribers ever created on the broadcast channel
MaxSubscribers == 2
\* number of write / read / subscribe / unsubscribe calls on the hardware
MaxHardwareCalls == 1

(* ------------------------- program constants --------------------------- *)
\* bounded::<..>(256): capacity of the loop's channels
ChannelCap == 256
Indices == 0 .. (MaxFound - 1)
\* indices a client may address: every allocatable index and one that is never allocated
CmdIndices == 0 .. MaxFound
\* what try_create_device yields for a creator: Ok(Some), Ok(None), Err
Creators == {"some", "none", "err"}
NoIdx == -1

VARIABLES
  main_device_index,  \* AtomicU32 index counter
  device_comm,        \* channel of DeviceCommunicationEvent (device_comm_receiver)
  device_event,       \* channel of (u32, ButtplugDeviceEvent) (device_event_receiver)
  ping,               \* number of signals waiting in the ping channel
  device_map,         \* evmap: keys visible to the read handles
  oplog,              \* evmap: writer operations not yet published by refresh()
  destroyed,          \* evmap: the write handle has been dropped
  loopPc,             \* position of the event loop: "select", "stopping", "exited"
  fut_vec,            \* ping timeout: devices whose stop future is still to be awaited
  tasks,              \* identification task per allocated index
  devices,            \* per index: state of the device's event stream and forwarding task
  server_sender,      \* messages sent on the outward server channel, oldest first
  stops,              \* per index: StopDeviceCmd messages handed to the device
  stopErrors,         \* indices whose stop future returned Err (the loop's error! log)
  reply,              \* result of the latest parse_message call
  calls,              \* number of parse_message calls made
  allocated,          \* history: indices given to DeviceFound events, in handling order
  pinged,             \* history: the loop has taken the ping-timeout signal
  pingRegistry,       \* history: registry as seen by readers when the loop took the ping
  pingIdentified,     \* history: devices identified and not removed at that moment
  manager,            \* the DeviceManager object: comm_managers, its sender, the request in progress
  client,             \* the ButtplugClientEventLoop: roster, sender lists, channels, reply slots
  bridge              \* a BtlePlugHardware: its bridge task, broadcast channel, endpoints

vars == << main_device_index, device_comm, device_event, ping, device_map, oplog,
           destroyed, loopPc, fut_vec, tasks, devices, server_sender, stops, stopErrors,
           reply, calls, allocated, pinged, pingRegistry, pingIdentified, manager,
           client, bridge >>

(* ----------------------------- messages -------------------------------- *)
CommEvent(t, i, c) == [type |-> t, idx |-> i, creator |-> c]
DevEvent(i, e) == [idx |-> i, event |-> e]
ServerMsg(t, i) == [type |-> t, idx |-> i]

NoTask == [pc |-> "none", creator |-> "none"]
NoReply == [kind |-> "none", idx |-> NoIdx, res |-> "none", list |-> {}, to |-> NoIdx]

\* indices for which a message of type t has been sent outward
OutIdx(t) == { server_sender[p].idx : p \in { q \in 1 .. Len(server_sender) : server_sender[q].type = t } }
AddedOut == OutIdx("DeviceAdded")
RemovedOut == OutIdx("DeviceRemoved")

(* ------------------------------- evmap --------------------------------- *)
\* one oplog entry applied to a key set
ApplyOp(m, op) == IF op.type = "insert" THEN m \cup {op.idx} ELSE m \ {op.idx}

RECURSIVE ApplyOps(_, _)
ApplyOps(m, ops) == IF ops = << >> THEN m ELSE ApplyOps(ApplyOp(m, Head(ops)), Tail(ops))

\* WriteHandle::insert / WriteHandle::empty: queued, invisible to readers until refresh
Insert(ops, i) == Append(ops, [type |-> "insert", idx |-> i])
Empty(ops, i) == Append(ops, [type |-> "empty", idx |-> i])

\* keys of the map as the writer has left it (published map plus pending operations)
WriterView == ApplyOps(device_map, oplog)

\* keys a ReadHandle sees: nothing once the write handle is gone
ReaderView == IF destroyed THEN {} ELSE device_map

(* ----------------------- the DeviceManager object ---------------------- *)
Managers == 1 .. MaxManagers
\* message ids of the requests
MsgIds == {1, 2}

\* DeviceManager::new: no communication manager, no request made
ManagerInit ==
  [ alive |-> TRUE,            \* the DeviceManager has not been dropped
    comm_managers |-> 0,       \* length of comm_managers
    nreq |-> 0,                \* requests made so far
    kind |-> "none",           \* the latest request
    id |-> 0,                  \* its message id
    nmgr |-> 0,                \* comm_managers.len() when it was made
    snapshot |-> {},           \* registry as seen by readers when it was made
    pending |-> {},            \* fut_vec: futures that have not returned yet
    errors |-> {},             \* futures that returned Err
    started |-> [m \in Managers |-> 0],   \* start_scanning() calls it made, per manager
    stopped |-> [m \in Managers |-> 0],   \* stop_scanning() calls it made, per manager
    issued |-> [i \in Indices |-> 0],     \* StopDeviceCmd(1) it handed out, per device
    result |-> "none",         \* what its future resolved to
    resultId |-> 0 ]           \* the id carried by messages::Ok

(* -------------------------- the client event loop ---------------------- *)
ClientIndices == 0 .. MaxClientIndex
\* device names, to tell one DeviceMessageInfo for an index from another
Names == {"a", "b"}
NoName == "none"
\* DeviceMessageInfo
Info(i, n) == [device_index |-> i, device_name |-> n]
Infos == { Info(i, n) : i \in ClientIndices, n \in Names }
\* the device lists a DeviceList or HandleDeviceList message may carry
InfoLists == UNION { [1 .. k -> Infos] : k \in 0 .. MaxListLen }

\* ButtplugClientOutMessage from the connector, ButtplugClientMessage from the application
ConnectorMsg(t, i, l) == [type |-> t, idx |-> i, infos |-> l]
ClientMsg(t, m, l) == [type |-> t, id |-> m, infos |-> l]
\* ButtplugClientEvent sent on event_sender
ClientEvent(t, i, n) == [type |-> t, idx |-> i, name |-> n]
\* the reply a connector send returned; a slot nobody has set
Reply(m, r) == [for |-> m, res |-> r]
NoSlot == [for |-> 0, res |-> "none"]

\* ButtplugClientEventLoop::new
ClientInit ==
  [ devices |-> [i \in ClientIndices |-> NoName],       \* roster: index -> stored info
    device_event_senders |-> [i \in ClientIndices |-> 0], \* length of the sender list
    event_sender |-> << >>,              \* events sent to the application
    connector_receiver |-> << >>,        \* messages from the connector
    client_receiver |-> << >>,           \* messages from the application
    device_message_receiver |-> << >>,   \* message/reply-slot pairs from device handles
    pc |-> "select",                     \* "select", "sending", "exited", "panicked"
    exit_reason |-> "none",              \* why run ended: "disconnect", "closure", "panic"
    client_closed |-> FALSE,             \* every sender of client_receiver is dropped
    connector_closed |-> FALSE,          \* the connector dropped its event sender
    ndisc |-> 0,                         \* Disconnect messages sent by the application
    nclose |-> 0,                        \* channels closed
    disconnects |-> 0,                   \* connector.disconnect() calls
    disconnect_result |-> "none",        \* what the latest disconnect() returned
    state_slot |-> "none",               \* the Disconnect message's state slot
    device_ids |-> {},                   \* pairs that were sent by device handles
    cur |-> 0,                           \* the pair whose connector send is outstanding
    connector_sent |-> << >>,            \* messages handed to connector.send, in order
    returned |-> [m \in MsgIds |-> NoSlot],  \* what connector.send returned per message
    slots |-> [m \in MsgIds |-> NoSlot],     \* reply slots
    set_count |-> [m \in MsgIds |-> 0],      \* set_reply calls per slot
    list_reply |-> [i \in ClientIndices |-> 0], \* handles in the latest RequestDeviceList reply
    nconn |-> 0,                         \* messages delivered by the connector
    nlist |-> 0,                         \* list requests sent by the application
    next_msg |-> 1 ]                     \* next message/reply-slot pair to be created

(* ------------------------- the hardware bridge ------------------------- *)
\* endpoints of the protocol, and the characteristic UUID of each
Endpoints == {"tx", "rx"}
UuidOf(e) == IF e = "tx" THEN "uuid_tx" ELSE "uuid_rx"
\* UUIDs a notification may carry: those of the protocol and one of no endpoint
Uuids == { UuidOf(e) : e \in Endpoints } \cup {"uuid_other"}
NoEndpoint == "none"
Subscribers == 1 .. MaxSubscribers
\* HardwareEvent; n stands for the value of the n-th notification
HardwareEvent(t, e, n) == [type |-> t, endpoint |-> e, n |-> n]
NoEvent == HardwareEvent("none", NoEndpoint, 0)
NoCall ==
  [op |-> "none", endpoint |-> NoEndpoint, transport |-> "none", res |-> "none",
   arg |-> NoEndpoint]
HardwareOps == {"write", "read", "subscribe", "unsubscribe"}

\* before specialize: no hardware object, no task
BridgeInit ==
  [ pc |-> "new",              \* task: "new", "select", "check", "send", "sendDisconnected", "exited"
    endpoints |-> {},          \* keys of endpoints; uuid_map holds their UUIDs
    error_notification |-> FALSE,
    logged |-> 0,              \* "Endpoint for UUID not found" messages logged
    cur |-> NoEvent,           \* the notification being handled
    input |-> "none",          \* the latest item taken from either stream
    subs |-> [r \in Subscribers |-> "none"],   \* receivers: "none", "live", "dropped"
    received |-> [r \in Subscribers |-> << >>], \* events each receiver can read
    sent |-> << >>,            \* events placed on the broadcast channel
    dropped |-> {},            \* notifications skipped because nobody was subscribed
    nnotif |-> 0,              \* notifications taken from notification_stream
    ncentral |-> 0,            \* events taken from adapter_event_stream
    call |-> NoCall,           \* the latest hardware call and its result
    ncalls |-> 0,              \* hardware calls made
    peripheral |-> [o \in HardwareOps |-> 0] ] \* operations performed on the peripheral

(* ------------------------------- Init ---------------------------------- *)
Init ==
  /\ main_device_index = 0
  /\ device_comm = << >>
  /\ device_event = << >>
  /\ ping = 0
  /\ device_map = {}
  /\ oplog = << >>
  /\ destroyed = FALSE
  /\ loopPc = "select"
  /\ fut_vec = {}
  /\ tasks = [i \in Indices |-> NoTask]
  /\ devices = [i \in Indices |-> [state |-> "absent", others |-> 0]]
  /\ server_sender = << >>
  /\ stops = [i \in Indices |-> 0]
  /\ stopErrors = {}
  /\ reply = NoReply
  /\ calls = 0
  /\ allocated = << >>
  /\ pinged = FALSE
  /\ pingRegistry = {}
  /\ pingIdentified = {}
  /\ manager = ManagerInit
  /\ client = ClientInit
  /\ bridge = BridgeInit

(* ------------------- communication managers, ping ---------------------- *)
\* positions of the outward channel that hold a message of type t
Sent(t) == { q \in 1 .. Len(server_sender) : server_sender[q].type = t }

\* number of events of type t waiting in the communication-event channel
Queued(t) == Cardinality({ q \in 1 .. Len(device_comm) : device_comm[q].type = t })

\* a send on a channel whose receiver the loop has dropped fails and queues nothing
ChanSend(q, m) == IF loopPc = "exited" THEN q ELSE Append(q, m)

\* a communication manager reports a discovered peripheral
ManagerDeviceFound ==
  /\ Len(allocated) + Queued("DeviceFound") < MaxFound
  /\ Len(device_comm) < ChannelCap
  /\ \E c \in Creators :
       device_comm' = ChanSend(device_comm, CommEvent("DeviceFound", NoIdx, c))
  /\ UNCHANGED << main_device_index, device_event, ping, device_map, oplog, destroyed,
                  loopPc, fut_vec, tasks, devices, server_sender, stops, stopErrors, reply,
                  calls, allocated, pinged, pingRegistry, pingIdentified, manager, client,
                  bridge >>

\* a communication manager reports the end of its scan
ManagerScanningFinished ==
  /\ Queued("ScanningFinished") + Cardinality(Sent("ScanningFinished")) < MaxScanFinished
  /\ Len(device_comm) < ChannelCap
  /\ device_comm' = ChanSend(device_comm, CommEvent("ScanningFinished", NoIdx, "none"))
  /\ UNCHANGED << main_device_index, device_event, ping, device_map, oplog, destroyed,
                  loopPc, fut_vec, tasks, devices, server_sender, stops, stopErrors, reply,
                  calls, allocated, pinged, pingRegistry, pingIdentified, manager, client,
                  bridge >>

\* devices that have been identified and have not reported Removed
Identified == { i \in Indices : devices[i].state = "live" }

\* the ping timer sends its signal
PingFire ==
  /\ ~pinged
  /\ ping = 0
  /\ ping' = ping + 1
  /\ UNCHANGED << main_device_index, device_comm, device_event, device_map, oplog,
                  destroyed, loopPc, fut_vec, tasks, devices, server_sender, stops,
                  stopErrors, reply, calls, allocated, pinged, pingRegistry,
                  pingIdentified, manager, client,
                  bridge >>

(* --------------------------- the event loop ---------------------------- *)
\* faulty variant of NextIndex: the counter is stored back without the increment
NextIndexStuck(x) == x

\* main_device_index.store(main_device_index.load() + 1); the u32 counter cannot wrap
\* here, MaxFound allocations being far below 2^32
NextIndex(x) == x + 1

\* DeviceFound: allocate the index, spawn the identification task
LoopDeviceFound ==
  /\ loopPc = "select"
  /\ device_comm # << >>
  /\ Head(device_comm).type = "DeviceFound"
  /\ main_device_index \in Indices
  /\ LET device_index == main_device_index IN
       /\ main_device_index' = NextIndex(main_device_index)
       /\ tasks' = [tasks EXCEPT ![device_index] =
                      [pc |-> "identify", creator |-> Head(device_comm).creator]]
       /\ allocated' = Append(allocated, device_index)
  /\ device_comm' = Tail(device_comm)
  /\ UNCHANGED << device_event, ping, device_map, oplog, destroyed, loopPc, fut_vec,
                  devices, server_sender, stops, stopErrors, reply, calls, pinged,
                  pingRegistry, pingIdentified, manager, client,
                  bridge >>

\* DeviceConnected: insert into the registry and publish
LoopDeviceConnected ==
  /\ loopPc = "select"
  /\ device_comm # << >>
  /\ Head(device_comm).type = "DeviceConnected"
  /\ device_map' = ApplyOps(device_map, Insert(oplog, Head(device_comm).idx))
  /\ oplog' = << >>
  /\ device_comm' = Tail(device_comm)
  /\ UNCHANGED << main_device_index, device_event, ping, destroyed, loopPc, fut_vec, tasks,
                  devices, server_sender, stops, stopErrors, reply, calls, allocated,
                  pinged, pingRegistry, pingIdentified, manager, client,
                  bridge >>

\* ScanningFinished: forward outward
LoopScanningFinished ==
  /\ loopPc = "select"
  /\ device_comm # << >>
  /\ Head(device_comm).type = "ScanningFinished"
  /\ server_sender' = Append(server_sender, ServerMsg("ScanningFinished", NoIdx))
  /\ device_comm' = Tail(device_comm)
  /\ UNCHANGED << main_device_index, device_event, ping, device_map, oplog, destroyed,
                  loopPc, fut_vec, tasks, devices, stops, stopErrors, reply, calls,
                  allocated, pinged, pingRegistry, pingIdentified, manager, client,
                  bridge >>

\* faulty variant of RemovedOps: the Removed handler leaves the registry alone
RemovedOpsNone(ops, idx) == ops

\* the registry write the loop makes for a Removed event: empty(idx), no refresh
RemovedOps(ops, idx) == Empty(ops, idx)

\* a device event: Removed evicts and reports DeviceRemoved, any other event is logged
LoopDeviceEvent ==
  /\ loopPc = "select"
  /\ device_event # << >>
  /\ LET idx == Head(device_event).idx IN
       IF Head(device_event).event = "Removed"
       THEN /\ oplog' = RemovedOps(oplog, idx)
            /\ server_sender' = Append(server_sender, ServerMsg("DeviceRemoved", idx))
       ELSE UNCHANGED << oplog, server_sender >>
  /\ device_event' = Tail(device_event)
  /\ UNCHANGED << main_device_index, device_comm, ping, device_map, destroyed, loopPc,
                  fut_vec, tasks, devices, stops, stopErrors, reply, calls, allocated,
                  pinged, pingRegistry, pingIdentified, manager, client,
                  bridge >>

\* PingTimeout: build one stop future per device the read handle shows
LoopPingTimeout ==
  /\ loopPc = "select"
  /\ ping > 0
  /\ ping' = ping - 1
  /\ fut_vec' = ReaderView
  /\ pinged' = TRUE
  /\ pingRegistry' = ReaderView
  /\ pingIdentified' = Identified
  /\ loopPc' = "stopping"
  /\ UNCHANGED << main_device_index, device_comm, device_event, device_map, oplog,
                  destroyed, tasks, devices, server_sender, stops, stopErrors, reply,
                  calls, allocated, manager, client,
                  bridge >>

\* faulty variant of AfterStop: the first Err abandons the remaining stop futures
AfterStopAbort(rest, res) == IF res = "err" THEN {} ELSE rest

\* the stop futures still to be awaited once one has returned res: an Err is only logged
AfterStop(rest, res) == rest

\* PingTimeout: await the next stop future
LoopAwaitStop ==
  /\ loopPc = "stopping"
  /\ \E i \in fut_vec, res \in {"ok", "err"} :
       /\ stops' = [stops EXCEPT ![i] = @ + 1]
       /\ stopErrors' = IF res = "err" THEN stopErrors \cup {i} ELSE stopErrors
       /\ fut_vec' = AfterStop(fut_vec \ {i}, res)
  /\ UNCHANGED << main_device_index, device_comm, device_event, ping, device_map, oplog,
                  destroyed, loopPc, tasks, devices, server_sender, reply, calls,
                  allocated, pinged, pingRegistry, pingIdentified, manager, client,
                  bridge >>

\* faulty variant of PcAfterStops: the handler falls back into the select
PcAfterStopsContinue == "select"

\* where the loop goes once every stop future has been awaited: break
PcAfterStops == "exited"

\* PingTimeout: leave the loop; the loop future is dropped and the write handle with it
LoopBreak ==
  /\ loopPc = "stopping"
  /\ fut_vec = {}
  /\ loopPc' = PcAfterStops
  /\ destroyed' = (PcAfterStops = "exited")
  /\ device_map' = WriterView
  /\ oplog' = << >>
  /\ UNCHANGED << main_device_index, device_comm, device_event, ping, fut_vec, tasks,
                  devices, server_sender, stops, stopErrors, reply, calls, allocated,
                  pinged, pingRegistry, pingIdentified, manager, client,
                  bridge >>

(* ---------------------- identification task ---------------------------- *)
\* faulty variant of IdentifyOk: every result of try_create_device is taken as a device
IdentifyOkAlways(creator) == TRUE

\* try_create_device(creator) returned Ok(Some(device))
IdentifyOk(creator) == creator = "some"

\* try_create_device returns; on success the forwarding task is spawned
TaskIdentify(i) ==
  /\ tasks[i].pc = "identify"
  /\ IF IdentifyOk(tasks[i].creator)
     THEN /\ tasks' = [tasks EXCEPT ![i].pc = "sendAdded"]
          /\ devices' = [devices EXCEPT ![i] = [state |-> "live", others |-> 0]]
     ELSE /\ tasks' = [tasks EXCEPT ![i].pc = "done"]
          /\ UNCHANGED devices
  /\ UNCHANGED << main_device_index, device_comm, device_event, ping, device_map, oplog,
                  destroyed, loopPc, fut_vec, server_sender, stops, stopErrors, reply,
                  calls, allocated, pinged, pingRegistry, pingIdentified, manager, client,
                  bridge >>

\* faulty variant of DeviceAddedMsg: the message does not carry the allocated index
DeviceAddedMsgZero(device_index) == ServerMsg("DeviceAdded", 0)

\* DeviceAdded::new(device_index, device.name(), &device.message_attributes())
DeviceAddedMsg(device_index) == ServerMsg("DeviceAdded", device_index)

\* server_sender_clone.send(device_added_message)
TaskSendAdded(i) ==
  /\ tasks[i].pc = "sendAdded"
  /\ server_sender' = Append(server_sender, DeviceAddedMsg(i))
  /\ tasks' = [tasks EXCEPT ![i].pc = "sendConnected"]
  /\ UNCHANGED << main_device_index, device_comm, device_event, ping, device_map, oplog,
                  destroyed, loopPc, fut_vec, devices, stops, stopErrors, reply, calls,
                  allocated, pinged, pingRegistry, pingIdentified, manager, client,
                  bridge >>

\* device_comm_sender_internal_clone.send(DeviceConnected((device_index, device)))
TaskSendConnected(i) ==
  /\ tasks[i].pc = "sendConnected"
  /\ Len(device_comm) < ChannelCap
  /\ device_comm' = ChanSend(device_comm, CommEvent("DeviceConnected", i, "none"))
  /\ tasks' = [tasks EXCEPT ![i].pc = "done"]
  /\ UNCHANGED << main_device_index, device_event, ping, device_map, oplog, destroyed,
                  loopPc, fut_vec, devices, server_sender, stops, stopErrors, reply, calls,
                  allocated, pinged, pingRegistry, pingIdentified, manager, client,
                  bridge >>

(* ------------------------- forwarding task ----------------------------- *)
\* the device emits e on its event stream and the forwarding task sends (idx, e) to the loop
ForwardDeviceEvent(i) ==
  /\ devices[i].state = "live"
  /\ Len(device_event) < ChannelCap
  /\ \E e \in {"Removed", "Other"} :
       /\ e = "Other" => devices[i].others < MaxOtherEvents
       /\ device_event' = ChanSend(device_event, DevEvent(i, e))
       /\ devices' = [devices EXCEPT ![i] =
                        IF e = "Removed" THEN [@ EXCEPT !.state = "removed"]
                                         ELSE [@ EXCEPT !.others = @ + 1]]
  /\ UNCHANGED << main_device_index, device_comm, ping, device_map, oplog, destroyed,
                  loopPc, fut_vec, tasks, server_sender, stops, stopErrors, reply, calls,
                  allocated, pinged, pingRegistry, pingIdentified, manager, client,
                  bridge >>

(* ------------------------ DeviceManager requests ----------------------- *)
\* faulty variant of GetOne: every index is taken to be registered
GetOneAny(idx) == TRUE

\* self.devices.get_one(&index): Some(device) or None
GetOne(idx) == idx \in ReaderView

\* parse_device_message: a device command addressed to idx
ParseDeviceMessage(idx) ==
  /\ calls < MaxCalls
  /\ calls' = calls + 1
  /\ reply' = [kind |-> "cmd", idx |-> idx,
               res |-> IF GetOne(idx) THEN "delivered" ELSE "DeviceError",
               list |-> {}, to |-> IF GetOne(idx) THEN idx ELSE NoIdx]
  /\ UNCHANGED << main_device_index, device_comm, device_event, ping, device_map, oplog,
                  destroyed, loopPc, fut_vec, tasks, devices, server_sender, stops,
                  stopErrors, allocated, pinged, pingRegistry, pingIdentified, manager,
                  client, bridge >>

\* parse_device_manager_message, RequestDeviceList: read().unwrap() panics on a destroyed map
RequestDeviceList ==
  /\ calls < MaxCalls
  /\ calls' = calls + 1
  /\ reply' = [kind |-> "list", idx |-> NoIdx,
               res |-> IF destroyed THEN "panic" ELSE "ok",
               list |-> ReaderView, to |-> NoIdx]
  /\ UNCHANGED << main_device_index, device_comm, device_event, ping, device_map, oplog,
                  destroyed, loopPc, fut_vec, tasks, devices, server_sender, stops,
                  stopErrors, allocated, pinged, pingRegistry, pingIdentified, manager,
                  client, bridge >>

(* --------------------------- specification ----------------------------- *)
Next ==
  \/ ManagerDeviceFound
  \/ ManagerScanningFinished
  \/ PingFire
  \/ LoopDeviceFound
  \/ LoopDeviceConnected
  \/ LoopScanningFinished
  \/ LoopDeviceEvent
  \/ LoopPingTimeout
  \/ LoopAwaitStop
  \/ LoopBreak
  \/ \E i \in Indices : TaskIdentify(i)
  \/ \E i \in Indices : TaskSendAdded(i)
  \/ \E i \in Indices : TaskSendConnected(i)
  \/ \E i \in Indices : ForwardDeviceEvent(i)
  \/ \E idx \in CmdIndices : ParseDeviceMessage(idx)
  \/ RequestDeviceList

Spec == Init /\ [][Next]_vars

(* ---------------- SpecRequests: the DeviceManager object --------------- *)
\* the registry, the loop's channels and the client are not touched by a request
ManagerFrame ==
  UNCHANGED << main_device_index, device_comm, device_event, ping, device_map, oplog,
               destroyed, loopPc, fut_vec, tasks, devices, server_sender, stops,
               stopErrors, reply, calls, allocated, pinged, pingRegistry, pingIdentified,
               client, bridge >>

\* no request is in flight: none was made, or the latest one has resolved
RequestIdle == manager.kind = "none" \/ manager.result # "none"

\* add_comm_manager / add_test_comm_manager: comm_managers.push
AddCommManager ==
  /\ manager.alive
  /\ manager.comm_managers < MaxManagers
  /\ manager' = [manager EXCEPT !.comm_managers = @ + 1]
  /\ ManagerFrame

\* faulty variant of ScanTargets: only the first manager is asked
ScanTargetsFirst(n) == IF n = 0 THEN {} ELSE {1}

\* self.comm_managers.iter(): the managers a scanning request fans out to
ScanTargets(n) == 1 .. n

\* a fresh request record
NewRequest(kind, msg_id) ==
  [manager EXCEPT !.nreq = @ + 1, !.kind = kind, !.id = msg_id,
                  !.nmgr = manager.comm_managers, !.snapshot = {},
                  !.pending = {}, !.errors = {},
                  !.started = [m \in Managers |-> 0],
                  !.stopped = [m \in Managers |-> 0],
                  !.issued = [i \in Indices |-> 0],
                  !.result = "none", !.resultId = 0]

\* start_scanning: UnknownError without managers, else one start_scanning() per manager
StartScanning(msg_id) ==
  /\ manager.alive /\ RequestIdle /\ manager.nreq < MaxRequests
  /\ manager' =
       IF manager.comm_managers = 0
       THEN [NewRequest("StartScanning", msg_id) EXCEPT !.result = "UnknownError"]
       ELSE [NewRequest("StartScanning", msg_id) EXCEPT
               !.pending = ScanTargets(manager.comm_managers),
               !.started = [m \in Managers |->
                              IF m \in ScanTargets(manager.comm_managers) THEN 1 ELSE 0]]
  /\ ManagerFrame

\* stop_scanning: UnknownError without managers, else one stop_scanning() per manager
StopScanning(msg_id) ==
  /\ manager.alive /\ RequestIdle /\ manager.nreq < MaxRequests
  /\ manager' =
       IF manager.comm_managers = 0
       THEN [NewRequest("StopScanning", msg_id) EXCEPT !.result = "UnknownError"]
       ELSE [NewRequest("StopScanning", msg_id) EXCEPT
               !.pending = ScanTargets(manager.comm_managers),
               !.stopped = [m \in Managers |->
                              IF m \in ScanTargets(manager.comm_managers) THEN 1 ELSE 0]]
  /\ ManagerFrame

\* faulty variant of StopAllTargets: the device with the lowest index is left out
StopAllTargetsSkip(view) ==
  IF view = {} THEN {} ELSE view \ {CHOOSE i \in view : \A j \in view : i <= j}

\* self.devices.read().unwrap().iter(): the devices a stop-all request fans out to
StopAllTargets(view) == view

\* stop_all_devices: one StopDeviceCmd(1) per device the read handle shows; read()
\* is None on a destroyed map and the unwrap panics
StopAllDevices(msg_id) ==
  /\ manager.alive /\ RequestIdle /\ manager.nreq < MaxRequests
  /\ manager' =
       IF destroyed
       THEN [NewRequest("StopAllDevices", msg_id) EXCEPT !.result = "panic"]
       ELSE [NewRequest("StopAllDevices", msg_id) EXCEPT
               !.snapshot = ReaderView,
               !.pending = StopAllTargets(ReaderView),
               !.issued = [i \in Indices |->
                             IF i \in StopAllTargets(ReaderView) THEN 1 ELSE 0]]
  /\ ManagerFrame

\* join_all: one of the request's futures returns, Ok or Err
FutureReturns ==
  /\ manager.result = "none"
  /\ \E t \in manager.pending, res \in {"ok", "err"} :
       manager' = [manager EXCEPT
                     !.pending = @ \ {t},
                     !.errors = IF res = "err" THEN @ \cup {t} ELSE @]
  /\ ManagerFrame

\* faulty variant of BatchResult: an Err of one future fails the batch
BatchResultStrict(errors) == IF errors = {} THEN "Ok" ELSE "Error"

\* what the request resolves to once join_all has returned: Ok(messages::Ok::new(msg_id))
BatchResult(errors) == "Ok"

\* join_all has returned: the request resolves
RequestResolves ==
  /\ manager.kind # "none"
  /\ manager.result = "none"
  /\ manager.pending = {}
  /\ manager' = [manager EXCEPT !.result = BatchResult(manager.errors),
                                !.resultId = manager.id]
  /\ ManagerFrame

\* the DeviceManager is dropped, and with it its sender and its communication managers
DropManager ==
  /\ manager.alive
  /\ RequestIdle
  /\ manager' = [manager EXCEPT !.alive = FALSE]
  /\ ManagerFrame

\* the loop publishes a registry change: DeviceConnected's insert and refresh
RegistryPublish ==
  /\ ~destroyed
  /\ \E i \in Indices \ device_map : device_map' = device_map \cup {i}
  /\ UNCHANGED << main_device_index, device_comm, device_event, ping, oplog, destroyed,
                  loopPc, fut_vec, tasks, devices, server_sender, stops, stopErrors,
                  reply, calls, allocated, pinged, pingRegistry, pingIdentified,
                  manager, client,
                  bridge >>

\* the loop leaves on a ping timeout: the write handle is dropped
LoopExits ==
  /\ ~destroyed
  /\ loopPc' = PcAfterStops
  /\ destroyed' = TRUE
  /\ UNCHANGED << main_device_index, device_comm, device_event, ping, device_map, oplog,
                  fut_vec, tasks, devices, server_sender, stops, stopErrors, reply, calls,
                  allocated, pinged, pingRegistry, pingIdentified, manager, client,
                  bridge >>

RequestsNext ==
  \/ AddCommManager
  \/ \E msg_id \in MsgIds : StartScanning(msg_id)
  \/ \E msg_id \in MsgIds : StopScanning(msg_id)
  \/ \E msg_id \in MsgIds : StopAllDevices(msg_id)
  \/ FutureReturns
  \/ RequestResolves
  \/ DropManager
  \/ RegistryPublish
  \/ LoopExits

SpecRequests == Init /\ [][RequestsNext]_vars

(* ------------------- SpecClient: the client event loop ----------------- *)
\* the server side is not touched by the client loop
ClientFrame ==
  UNCHANGED << main_device_index, device_comm, device_event, ping, device_map, oplog,
               destroyed, loopPc, fut_vec, tasks, devices, server_sender, stops,
               stopErrors, reply, calls, allocated, pinged, pingRegistry, pingIdentified,
               manager, bridge >>

\* run has not returned: its receivers exist, and the input budget is not used up
ClientAcceptsInput ==
  /\ client.pc \in {"select", "sending"}
  /\ client.nconn + client.nlist + client.ndisc + client.nclose < MaxClientInputs

\* the connector delivers a server message
ConnectorDelivers ==
  /\ ClientAcceptsInput
  /\ ~client.connector_closed
  /\ \E msg \in { ConnectorMsg("DeviceAdded", i.device_index, << i >>) : i \in Infos }
            \cup { ConnectorMsg("DeviceList", NoIdx, l) : l \in InfoLists }
            \cup { ConnectorMsg("DeviceRemoved", i, << >>) : i \in ClientIndices }
            \cup { ConnectorMsg("Other", NoIdx, << >>) } :
       client' = [client EXCEPT !.connector_receiver = Append(@, msg), !.nconn = @ + 1]
  /\ ClientFrame

\* the application sends RequestDeviceList or HandleDeviceList
ApplicationListRequest ==
  /\ ClientAcceptsInput
  /\ ~client.client_closed
  /\ \E msg \in { ClientMsg("RequestDeviceList", 0, << >>) }
            \cup { ClientMsg("HandleDeviceList", 0, l) : l \in InfoLists } :
       client' = [client EXCEPT !.client_receiver = Append(@, msg), !.nlist = @ + 1]
  /\ ClientFrame

\* the application sends a message with its reply slot
ApplicationMessage ==
  /\ client.next_msg \in MsgIds
  /\ client.pc \in {"select", "sending"}
  /\ ~client.client_closed
  /\ client' = [client EXCEPT
                  !.client_receiver = Append(@, ClientMsg("Message", client.next_msg, << >>)),
                  !.next_msg = @ + 1]
  /\ ClientFrame

\* a device handle sends a message with its reply slot through device_message_sender
DeviceHandleMessage ==
  /\ client.next_msg \in MsgIds
  /\ client.pc \in {"select", "sending"}
  /\ Len(client.device_message_receiver) < ChannelCap
  /\ client' = [client EXCEPT
                  !.device_message_receiver = Append(@, client.next_msg),
                  !.device_ids = @ \cup {client.next_msg},
                  !.next_msg = @ + 1]
  /\ ClientFrame

\* the application sends Disconnect with a state slot
ApplicationDisconnect ==
  /\ ClientAcceptsInput
  /\ ~client.client_closed
  /\ client' = [client EXCEPT
                  !.client_receiver = Append(@, ClientMsg("Disconnect", 0, << >>)),
                  !.ndisc = @ + 1]
  /\ ClientFrame

\* the application drops the ButtplugClient: client_receiver has no sender left
ClientChannelCloses ==
  /\ ClientAcceptsInput
  /\ ~client.client_closed
  /\ client' = [client EXCEPT !.client_closed = TRUE, !.nclose = @ + 1]
  /\ ClientFrame

\* the connector drops the sender of its event channel
ConnectorChannelCloses ==
  /\ ClientAcceptsInput
  /\ ~client.connector_closed
  /\ client' = [client EXCEPT !.connector_closed = TRUE, !.nclose = @ + 1]
  /\ ClientFrame

\* faulty variant of CreateClientDevice: the new sender replaces the list
CreateClientDeviceReplace(senders, idx) == [senders EXCEPT ![idx] = 1]

\* create_client_device: entry(index).or_insert_with(vec![]).push(event_sender)
CreateClientDevice(senders, idx) == [senders EXCEPT ![idx] = @ + 1]

\* one DeviceMessageInfo arrives: new handle, roster insert, DeviceAdded event
AddDevice(c, info) ==
  [c EXCEPT
     !.device_event_senders = CreateClientDevice(@, info.device_index),
     !.devices = [@ EXCEPT ![info.device_index] = info.device_name],
     !.event_sender = Append(@, ClientEvent("DeviceAdded", info.device_index,
                                            info.device_name))]

\* faulty variant of AddDevices: entries whose index is already in the roster are skipped
RECURSIVE AddDevicesNew(_, _)
AddDevicesNew(c, list) ==
  IF list = << >> THEN c
  ELSE AddDevicesNew(IF c.devices[Head(list).device_index] # NoName THEN c
                     ELSE AddDevice(c, Head(list)), Tail(list))

\* for d in &device_list.devices: every entry in turn
RECURSIVE AddDevices(_, _)
AddDevices(c, list) ==
  IF list = << >> THEN c ELSE AddDevices(AddDevice(c, Head(list)), Tail(list))

\* the loop is in its select and the connector's channel has a message of type t
ConnectorHead(t) ==
  /\ client.pc = "select"
  /\ client.connector_receiver # << >>
  /\ Head(client.connector_receiver).type = t

\* parse_connector_message, DeviceAdded
ClientDeviceAdded ==
  /\ ConnectorHead("DeviceAdded")
  /\ client' = [AddDevice(client, Head(Head(client.connector_receiver).infos))
                  EXCEPT !.connector_receiver = Tail(@)]
  /\ ClientFrame

\* parse_connector_message, DeviceList
ClientDeviceList ==
  /\ ConnectorHead("DeviceList")
  /\ client' = [AddDevices(client, Head(client.connector_receiver).infos)
                  EXCEPT !.connector_receiver = Tail(@)]
  /\ ClientFrame

\* faulty variant of RemoveRoster: the roster entry is left in place
RemoveRosterKeep(roster, idx) == roster

\* self.devices.remove(&index)
RemoveRoster(roster, idx) == [roster EXCEPT ![idx] = NoName]

\* faulty variant of RemovedInfo: the event carries a default info, not the stored one
RemovedInfoDefault(roster, idx) == "a"

\* the info self.devices.remove(&index) returned, carried by the DeviceRemoved event
RemovedInfo(roster, idx) == roster[idx]

\* parse_connector_message, DeviceRemoved: both removals, then the event; info.unwrap()
\* panics when the index was not in the roster
ClientDeviceRemoved ==
  /\ ConnectorHead("DeviceRemoved")
  /\ LET idx == Head(client.connector_receiver).idx
         removed == [client EXCEPT
                       !.connector_receiver = Tail(@),
                       !.devices = RemoveRoster(@, idx),
                       !.device_event_senders = [@ EXCEPT ![idx] = 0]]
     IN client' =
          IF client.devices[idx] = NoName
          THEN [removed EXCEPT !.pc = "panicked", !.exit_reason = "panic"]
          ELSE [removed EXCEPT
                  !.event_sender = Append(@, ClientEvent("DeviceRemoved", idx,
                                                         RemovedInfo(client.devices, idx)))]
  /\ ClientFrame

\* the loop is in its select and the application's channel has a message of type t
ClientHead(t) ==
  /\ client.pc = "select"
  /\ client.client_receiver # << >>
  /\ Head(client.client_receiver).type = t

\* the roster entries, as the list of infos self.devices.clone().values() yields
RECURSIVE RosterInfos(_, _)
RosterInfos(roster, S) ==
  IF S = {} THEN << >>
  ELSE LET i == CHOOSE j \in S : \A k \in S : j <= k
       IN IF roster[i] = NoName THEN RosterInfos(roster, S \ {i})
          ELSE << Info(i, roster[i]) >> \o RosterInfos(roster, S \ {i})

\* one more handle for every info of the list
RECURSIVE CreateHandles(_, _)
CreateHandles(senders, list) ==
  IF list = << >> THEN senders
  ELSE CreateHandles(CreateClientDevice(senders, Head(list).device_index), Tail(list))

\* parse_client_message, RequestDeviceList: one new handle per roster entry, set_reply
ClientRequestDeviceList ==
  /\ ClientHead("RequestDeviceList")
  /\ LET list == RosterInfos(client.devices, ClientIndices) IN
       client' = [client EXCEPT
                    !.client_receiver = Tail(@),
                    !.device_event_senders = CreateHandles(@, list),
                    !.list_reply = [i \in ClientIndices |->
                                      Cardinality({ k \in 1 .. Len(list) :
                                                      list[k].device_index = i })]]
  /\ ClientFrame

\* parse_client_message, HandleDeviceList
ClientHandleDeviceList ==
  /\ ClientHead("HandleDeviceList")
  /\ client' = [AddDevices(client, Head(client.client_receiver).infos)
                  EXCEPT !.client_receiver = Tail(@)]
  /\ ClientFrame

\* send_message, first half: connector.send(msg_fut.msg), the loop awaits the reply
SendMessage(c, msg_fut) ==
  [c EXCEPT !.pc = "sending", !.cur = msg_fut, !.connector_sent = Append(@, msg_fut)]

\* parse_client_message, Message
ClientSendMessage ==
  /\ ClientHead("Message")
  /\ client' = [SendMessage(client, Head(client.client_receiver).id)
                  EXCEPT !.client_receiver = Tail(@)]
  /\ ClientFrame

\* faulty variant of DeviceMessageNext: the newest pair is taken first
DeviceMessageNewest(q) == q[Len(q)]

\* device_receiver.next(): the oldest pair in the channel
DeviceMessageNext(q) == Head(q)

\* run, StreamReturn::DeviceMessage
ClientDeviceMessage ==
  /\ client.pc = "select"
  /\ client.device_message_receiver # << >>
  /\ client' = [SendMessage(client, DeviceMessageNext(client.device_message_receiver))
                  EXCEPT !.device_message_receiver = Tail(@)]
  /\ ClientFrame

\* parse_connector_message, any other message: panic!
ClientOtherMessage ==
  /\ ConnectorHead("Other")
  /\ client' = [client EXCEPT !.connector_receiver = Tail(@),
                              !.pc = "panicked", !.exit_reason = "panic"]
  /\ ClientFrame

\* faulty variant of AfterDisconnect: the loop goes on after a Disconnect
AfterDisconnectContinue == "select"

\* parse_client_message returns false and run breaks
AfterDisconnect == "exited"

\* parse_client_message, Disconnect: state.set_reply(self.connector.disconnect().await)
ClientDisconnect ==
  /\ ClientHead("Disconnect")
  /\ \E res \in {"ok", "err"} :
       client' = [client EXCEPT
                    !.client_receiver = Tail(@),
                    !.disconnects = @ + 1,
                    !.disconnect_result = res,
                    !.state_slot = res,
                    !.pc = AfterDisconnect,
                    !.exit_reason = IF AfterDisconnect = "exited" THEN "disconnect" ELSE @]
  /\ ClientFrame

\* run: client_receiver.next() is None, StreamReturn::Disconnect
ClientReceiverClosed ==
  /\ client.pc = "select"
  /\ client.client_closed
  /\ client.client_receiver = << >>
  /\ client' = [client EXCEPT !.pc = "exited", !.exit_reason = "closure"]
  /\ ClientFrame

\* run: connector_receiver.next() is None, StreamReturn::Disconnect
ConnectorReceiverClosed ==
  /\ client.pc = "select"
  /\ client.connector_closed
  /\ client.connector_receiver = << >>
  /\ client' = [client EXCEPT !.pc = "exited", !.exit_reason = "closure"]
  /\ ClientFrame

\* faulty variant of ReplySlot: the reply goes to the first pair's slot
ReplySlotFirst(msg_fut) == 1

\* msg_fut.waker: the reply slot that came with the message
ReplySlot(msg_fut) == msg_fut

\* send_message, second half: the connector's send returns, msg_fut.waker.set_reply(reply)
ConnectorReplies ==
  /\ client.pc = "sending"
  /\ \E res \in {"ok", "err"} :
       client' = [client EXCEPT
                    !.pc = "select",
                    !.cur = 0,
                    !.returned = [@ EXCEPT ![client.cur] = Reply(client.cur, res)],
                    !.slots = [@ EXCEPT ![ReplySlot(client.cur)] = Reply(client.cur, res)],
                    !.set_count = [@ EXCEPT ![ReplySlot(client.cur)] = @ + 1]]
  /\ ClientFrame

ClientNext ==
  \/ ConnectorDelivers
  \/ ApplicationListRequest
  \/ ApplicationMessage
  \/ DeviceHandleMessage
  \/ ClientDeviceAdded
  \/ ClientDeviceList
  \/ ClientDeviceRemoved
  \/ ClientRequestDeviceList
  \/ ClientHandleDeviceList
  \/ ClientSendMessage
  \/ ClientDeviceMessage
  \/ ConnectorReplies
  \/ ApplicationDisconnect
  \/ ClientChannelCloses
  \/ ConnectorChannelCloses
  \/ ClientOtherMessage
  \/ ClientDisconnect
  \/ ClientReceiverClosed
  \/ ConnectorReceiverClosed

SpecClient == Init /\ [][ClientNext]_vars

(* -------------------- SpecBridge: the hardware bridge ------------------ *)
\* the bridge touches neither the device manager nor the client loop
BridgeFrame ==
  UNCHANGED << main_device_index, device_comm, device_event, ping, device_map, oplog,
               destroyed, loopPc, fut_vec, tasks, devices, server_sender, stops,
               stopErrors, reply, calls, allocated, pinged, pingRegistry, pingIdentified,
               manager, client >>

\* specialize: the characteristics found on the peripheral are bound, the task is spawned
Specialize ==
  /\ bridge.pc = "new"
  /\ \E found \in SUBSET Endpoints :
       bridge' = [bridge EXCEPT !.pc = "select", !.endpoints = found]
  /\ BridgeFrame

\* event_stream(): a new receiver of the broadcast channel
Subscribe ==
  /\ bridge.pc # "new"
  /\ \E r \in Subscribers :
       /\ bridge.subs[r] = "none"
       /\ bridge' = [bridge EXCEPT !.subs[r] = "live"]
  /\ BridgeFrame

\* a receiver is dropped
DropSubscriber ==
  /\ \E r \in Subscribers :
       /\ bridge.subs[r] = "live"
       /\ bridge' = [bridge EXCEPT !.subs[r] = "dropped"]
  /\ BridgeFrame

\* event_stream_clone.receiver_count()
ReceiverCount(subs) == Cardinality({ r \in Subscribers : subs[r] = "live" })

\* uuid_map.get(&notification.uuid)
UuidMapGet(endpoints, uuid) ==
  IF \E e \in endpoints : UuidOf(e) = uuid
  THEN CHOOSE e \in endpoints : UuidOf(e) = uuid
  ELSE NoEndpoint

\* faulty variant of LogMiss: the error is logged for every miss
LogMissAlways(error_notification) == 1

\* if !error_notification { error!(...) }: messages logged for one miss
LogMiss(error_notification) == IF error_notification THEN 0 ELSE 1

\* broadcast send: every live receiver gets the event
Broadcast(b, ev) ==
  [b EXCEPT !.sent = Append(@, ev),
            !.received = [r \in Subscribers |->
                            IF b.subs[r] = "live" THEN Append(@[r], ev) ELSE @[r]]]

\* select!, notification arm: the stream ended, or the UUID is looked up; a miss is
\* logged once and skipped
BridgeNotification ==
  /\ bridge.pc = "select"
  /\ bridge.nnotif < MaxNotifications
  /\ \E uuid \in Uuids \cup {"ended"} :
       LET n == bridge.nnotif + 1
           endpoint == UuidMapGet(bridge.endpoints, uuid)
           taken == [bridge EXCEPT !.nnotif = n, !.input = uuid]
       IN bridge' =
            IF uuid = "ended" THEN taken
            ELSE IF endpoint = NoEndpoint
            THEN [taken EXCEPT !.logged = @ + LogMiss(bridge.error_notification),
                               !.error_notification = TRUE]
            ELSE [taken EXCEPT !.pc = "check",
                               !.cur = HardwareEvent("Notification", endpoint, n)]
  /\ BridgeFrame

\* faulty variant of AfterCount: the notification is sent whatever the count
AfterCountSend(count) == "send"

\* if event_stream_clone.receiver_count() == 0 { continue; }
AfterCount(count) == IF count = 0 THEN "select" ELSE "send"

\* the count of receivers is read
BridgeCheck ==
  /\ bridge.pc = "check"
  /\ LET next == AfterCount(ReceiverCount(bridge.subs)) IN
       bridge' = IF next = "select"
                 THEN [bridge EXCEPT !.pc = "select", !.cur = NoEvent,
                                     !.dropped = @ \cup {bridge.cur.n}]
                 ELSE [bridge EXCEPT !.pc = next]
  /\ BridgeFrame

\* event_stream_clone.send(Notification): Err, and break, when no receiver is left
BridgeSend ==
  /\ bridge.pc = "send"
  /\ bridge' = IF ReceiverCount(bridge.subs) = 0
               THEN [bridge EXCEPT !.pc = "exited", !.cur = NoEvent]
               ELSE [Broadcast(bridge, bridge.cur) EXCEPT !.pc = "select", !.cur = NoEvent]
  /\ BridgeFrame

\* faulty variant of AfterCentral: a disconnect of another peripheral ends the task too
AfterCentralAny(ev, count) ==
  IF ev \in {"own", "other"} THEN (IF count # 0 THEN "sendDisconnected" ELSE "exited")
  ELSE "select"

\* where the adapter arm leaves the task: only DeviceDisconnected(address) ends it
AfterCentral(ev, count) ==
  IF ev = "own" THEN (IF count # 0 THEN "sendDisconnected" ELSE "exited")
  ELSE "select"

\* select!, adapter arm: DeviceDisconnected of this peripheral ("own"), of another one
\* ("other"), any other central event ("misc"), or the end of the stream
BridgeCentral ==
  /\ bridge.pc = "select"
  /\ bridge.ncentral < MaxCentralEvents
  /\ \E ev \in {"own", "other", "misc", "ended"} :
       bridge' = [bridge EXCEPT !.ncentral = @ + 1,
                                !.input = ev,
                                !.pc = AfterCentral(ev, ReceiverCount(bridge.subs))]
  /\ BridgeFrame

\* event_stream_clone.send(Disconnected), an error is only logged; break
BridgeSendDisconnected ==
  /\ bridge.pc = "sendDisconnected"
  /\ bridge' = IF ReceiverCount(bridge.subs) = 0
               THEN [bridge EXCEPT !.pc = "exited"]
               ELSE [Broadcast(bridge, HardwareEvent("Disconnected", NoEndpoint, 0))
                       EXCEPT !.pc = "exited"]
  /\ BridgeFrame

\* faulty variant of EndpointsGet: every endpoint is taken to be bound
EndpointsGetAny(endpoints, e) == TRUE

\* self.endpoints.get(&msg.endpoint) is Some
EndpointsGet(endpoints, e) == e \in endpoints

\* write_value, read_value, subscribe, unsubscribe: InvalidEndpoint on an unbound endpoint,
\* otherwise one operation on the peripheral whose failure becomes DeviceSpecificError
HardwareCall ==
  /\ bridge.pc # "new"
  /\ bridge.ncalls < MaxHardwareCalls
  /\ \E op \in HardwareOps, e \in Endpoints, transport \in {"ok", "err"} :
       bridge' =
         IF EndpointsGet(bridge.endpoints, e)
         THEN [bridge EXCEPT
                 !.ncalls = @ + 1,
                 !.peripheral[op] = @ + 1,
                 !.call = [op |-> op, endpoint |-> e, transport |-> transport,
                           arg |-> NoEndpoint,
                           res |-> IF transport = "ok" THEN "Ok"
                                   ELSE "DeviceSpecificError"]]
         ELSE [bridge EXCEPT
                 !.ncalls = @ + 1,
                 !.call = [op |-> op, endpoint |-> e, transport |-> "none", arg |-> e,
                           res |-> "InvalidEndpoint"]]
  /\ BridgeFrame

BridgeNext ==
  \/ Specialize
  \/ Subscribe
  \/ DropSubscriber
  \/ BridgeNotification
  \/ BridgeCheck
  \/ BridgeSend
  \/ BridgeCentral
  \/ BridgeSendDisconnected
  \/ HardwareCall

SpecBridge == Init /\ [][BridgeNext]_vars

(* ----------------------------- channel senders ------------------------- *)
\* identification tasks still running: each holds a clone of both senders
RunningTasks == { i \in Indices : tasks[i].pc \in {"identify", "sendAdded", "sendConnected"} }

\* forwarding tasks still running: each holds a clone of device_event_sender
RunningForwarders == { i \in Indices : devices[i].state = "live" }

\* the loop future owns device_comm_sender_internal and device_event_sender until it ends
LoopSenders == IF loopPc = "exited" THEN 0 ELSE 1

\* senders of the communication-event channel: DeviceManager.sender, one per
\* communication manager, the identification tasks, and the loop's own clone
CommSenders ==
  (IF manager.alive THEN 1 + manager.comm_managers ELSE 0)
    + Cardinality(RunningTasks) + LoopSenders

\* senders of the device-event channel: the tasks' clones and the loop's own sender
EventSenders == Cardinality(RunningTasks) + Cardinality(RunningForwarders) + LoopSenders

\* a channel is closed, and next() yields None, when no sender is left
CommClosed == CommSenders = 0
EventClosed == EventSenders = 0

(* ------------------------------ claims -------------------------------- *)
\* s is an initial segment of t
IsPrefix(s, t) == Len(s) <= Len(t) /\ SubSeq(t, 1, Len(s)) = s

\* C1: the index counter starts at 0 and has grown by exactly 1 per handled DeviceFound:
\* the k-th DeviceFound handled got index k-1, whatever became of its identification,
\* so the allocated indices are pairwise distinct and strictly increasing.
C1_IndexAllocation ==
  /\ main_device_index = Len(allocated)
  /\ \A k \in 1 .. Len(allocated) : allocated[k] = k - 1

\* C1 witness: two DeviceFound events handled, the first one's identification failed
C1_Witness ==
  /\ allocated = << 0, 1 >>
  /\ tasks[0].pc = "done"
  /\ tasks[0].creator = "none"

\* C2 as stated: the DeviceAdded messages on the outward channel carry strictly
\* increasing indices, under every interleaving of the identification tasks.
C2_AddedStrictlyIncreasing ==
  \A p, q \in Sent("DeviceAdded") :
    p < q => server_sender[p].idx < server_sender[q].idx

\* C2 amended: the DeviceAdded messages on the outward channel carry pairwise distinct
\* indices, each of them an index allocated to a handled DeviceFound (their order on
\* the channel is the order in which the identification tasks finish).
C2_AddedDistinctAllocated ==
  /\ \A p, q \in Sent("DeviceAdded") :
       p # q => server_sender[p].idx # server_sender[q].idx
  /\ \A p \in Sent("DeviceAdded") :
       \E k \in 1 .. Len(allocated) : allocated[k] = server_sender[p].idx

\* C2 witness: both devices identified, the later-found one announced first
C2_Witness ==
  /\ Len(server_sender) >= 2
  /\ server_sender[1] = ServerMsg("DeviceAdded", 1)
  /\ server_sender[2] = ServerMsg("DeviceAdded", 0)

\* C3 as stated: a device command addressed to i and dispatched after DeviceAdded(i)
\* was emitted and before DeviceRemoved(i) is emitted is handed to device i and is
\* never answered with the 'No device with index' DeviceError.
C3_CommandAfterAddedDelivered ==
  [][ (calls' # calls /\ reply'.kind = "cmd"
         /\ reply'.idx \in AddedOut /\ reply'.idx \notin RemovedOut)
      => reply'.res = "delivered" ]_vars

\* C4 as stated: once DeviceRemoved(i) has been emitted, a device command addressed
\* to i returns DeviceError and is not delivered, and a RequestDeviceList answered
\* afterwards does not list i.
C4_RemovedNotVisible ==
  [][ calls' # calls =>
        /\ (reply'.kind = "cmd" /\ reply'.idx \in RemovedOut) => reply'.res = "DeviceError"
        /\ reply'.kind = "list" => reply'.list \cap RemovedOut = {} ]_vars

\* C5 as stated: every device that was identified and had not reported Removed when
\* the ping timeout was taken has received a StopDeviceCmd by the time the loop exits.
C5_AllIdentifiedStopped ==
  loopPc = "exited" => \A i \in pingIdentified : stops[i] >= 1

\* C6: on ping timeout each device in the registry as seen by readers at that moment
\* receives exactly one StopDeviceCmd from the loop (none is skipped because another
\* device's stop returned an error), and the devices outside it receive none.
C6_RegistryStoppedOnce ==
  /\ ~pinged => \A i \in Indices : stops[i] = 0
  /\ pinged => \A i \in Indices :
       stops[i] = (IF i \in pingRegistry /\ i \notin fut_vec THEN 1 ELSE 0)
  /\ loopPc = "exited" => fut_vec = {}

\* C6 witness: the loop has exited after stopping two devices, one stop returned Err
C6_Witness ==
  /\ loopPc = "exited"
  /\ pingRegistry = {0, 1}
  /\ stopErrors # {}
  /\ stops[0] = 1 /\ stops[1] = 1

\* every message the step adds to the outward channel is a DeviceAdded
OnlyAddedSent ==
  /\ IsPrefix(server_sender, server_sender')
  /\ \A q \in (Len(server_sender) + 1) .. Len(server_sender') :
       server_sender'[q].type = "DeviceAdded"

\* C7: once the loop has taken the ping-timeout signal it takes no further event from
\* its channels (they only grow), allocates no index, leaves the registry as it is and
\* emits neither DeviceRemoved nor ScanningFinished; it stays out of its select, and it
\* exits only when every stop future has been awaited.
C7_NoEventAfterPing ==
  [][ pinged =>
        /\ IsPrefix(device_comm, device_comm')
        /\ IsPrefix(device_event, device_event')
        /\ main_device_index' = main_device_index
        /\ WriterView' = WriterView
        /\ OnlyAddedSent
        /\ loopPc' # "select"
        /\ (loopPc' = "exited" /\ loopPc # "exited") => fut_vec = {} ]_vars

\* C7 witness: the loop has exited with a Removed event and a ScanningFinished queued
C7_Witness ==
  /\ loopPc = "exited"
  /\ \E q \in 1 .. Len(device_event) : device_event[q].event = "Removed"
  /\ Queued("ScanningFinished") > 0
  /\ pingRegistry # {}

\* C8 as stated: after DeviceRemoved(i) on the outward channel no later outward message
\* carries index i (no second DeviceRemoved(i), no DeviceAdded(i)).
C8_NothingAfterRemoved ==
  \A p \in Sent("DeviceRemoved") :
    \A q \in (p + 1) .. Len(server_sender) : server_sender[q].idx # server_sender[p].idx

\* C9: an index enters the registry (the writer's map) only when DeviceAdded for it is
\* already on the outward channel, and whenever the loop emits DeviceRemoved(i) it has
\* evicted i: i is not in the writer's map at that moment.
C9_InsertAfterAddedEvictBeforeRemoved ==
  [][ /\ \A i \in WriterView' \ WriterView : i \in AddedOut
      /\ \A q \in (Len(server_sender) + 1) .. Len(server_sender') :
           server_sender'[q].type = "DeviceRemoved" => server_sender'[q].idx \notin WriterView'
    ]_vars

\* C9 witness: device 0 was added, inserted, evicted and reported removed; device 1 is
\* in the registry
C9_Witness ==
  /\ 0 \in AddedOut /\ 0 \in RemovedOut
  /\ 0 \notin WriterView
  /\ \E q \in 1 .. Len(oplog) : oplog[q] = [type |-> "empty", idx |-> 0]
  /\ 1 \in device_map

\* a DeviceConnected for index i is waiting in the communication-event channel
ConnectedQueued(i) ==
  \E q \in 1 .. Len(device_comm) :
    device_comm[q].type = "DeviceConnected" /\ device_comm[q].idx = i

\* C10: when identification of a found device yields no protocol or an error, no
\* DeviceAdded is emitted for its index, the index never enters the registry, and the
\* index stays consumed: the next DeviceFound gets the next higher index.
C10_FailedIdentification ==
  /\ \A i \in Indices :
       (tasks[i].pc # "none" /\ tasks[i].creator # "some") =>
         /\ i \notin AddedOut
         /\ i \notin WriterView
         /\ ~ConnectedQueued(i)
         /\ devices[i].state = "absent"
         /\ main_device_index > i
  /\ \A k \in 1 .. Len(allocated) : tasks[k - 1].pc # "none" /\ allocated[k] = k - 1

\* C10 witness: the first device failed to identify, the second one was announced with
\* index 1 and is in the registry
C10_Witness ==
  /\ tasks[0].pc = "done"
  /\ tasks[0].creator \in {"none", "err"}
  /\ server_sender = << ServerMsg("DeviceAdded", 1) >>
  /\ device_map = {1}

\* C11: a device command addressed to i is answered with DeviceError and handed to no
\* device when i is not in the registry the read handle shows, and is otherwise handed
\* to the device registered under i and to no other.
C11_DeviceCommandRouting ==
  [][ (calls' # calls /\ reply'.kind = "cmd") =>
        IF reply'.idx \in ReaderView
        THEN reply'.res = "delivered" /\ reply'.to = reply'.idx
        ELSE reply'.res = "DeviceError" /\ reply'.to = NoIdx ]_vars

\* C11 witness: two devices registered, a command for index 1 went to device 1
C11_Witness ==
  /\ device_map = {0, 1}
  /\ reply.kind = "cmd" /\ reply.idx = 1
  /\ reply.res = "delivered" /\ reply.to = 1

\* the scanning calls the latest request has made on manager m
ScanCalls(m) ==
  IF manager.kind = "StartScanning" THEN manager.started[m] ELSE manager.stopped[m]

\* C13: StartScanning and StopScanning return UnknownError and call no manager when no
\* communication manager is registered; otherwise they invoke the operation exactly
\* once on every registered manager (and not the other operation) and resolve to Ok
\* with the request id only after every manager's call has returned, whatever it
\* returned.
C13_ScanningFanOut ==
  manager.kind \in {"StartScanning", "StopScanning"} =>
    /\ \A m \in Managers :
         manager.started[m] + manager.stopped[m] = ScanCalls(m)
    /\ IF manager.nmgr = 0
       THEN /\ manager.result = "UnknownError"
            /\ \A m \in Managers : ScanCalls(m) = 0
       ELSE /\ \A m \in Managers : ScanCalls(m) = (IF m <= manager.nmgr THEN 1 ELSE 0)
            /\ manager.result \in {"none", "Ok"}
            /\ manager.result = "Ok" => manager.pending = {} /\ manager.resultId = manager.id
            /\ manager.pending = {} => manager.result \in {"none", "Ok"}

\* C13 witness: both managers were asked to stop scanning, one call failed, the request
\* resolved to Ok
C13_Witness ==
  /\ manager.kind = "StopScanning"
  /\ manager.nmgr = 2
  /\ manager.errors # {}
  /\ manager.result = "Ok" /\ manager.resultId = 2

\* the stop-all request has handed one StopDeviceCmd to each device of its snapshot, and
\* resolves to Ok with its id only once all of them have returned
StopAllBatch ==
  /\ \A i \in Indices : manager.issued[i] = (IF i \in manager.snapshot THEN 1 ELSE 0)
  /\ manager.result = "Ok" => manager.pending = {} /\ manager.resultId = manager.id

\* C14 as stated: StopAllDevices issues StopDeviceCmd(1) exactly once to each device in
\* the registry at the time of the call and returns Ok with the request id after all
\* of them have completed, errors or not.
C14_StopAllReturnsOk ==
  manager.kind = "StopAllDevices" =>
    /\ StopAllBatch
    /\ manager.result \in {"none", "Ok"}

\* C14 amended: while the device-manager loop is running, StopAllDevices issues
\* StopDeviceCmd(1) exactly once to each device in the registry at the time of the call
\* and returns Ok with the request id only after all of them have completed, errors or
\* not; once the loop has exited the call panics and issues nothing.
C14_StopAllWhileLoopRuns ==
  manager.kind = "StopAllDevices" =>
    /\ StopAllBatch
    /\ manager.result \in {"none", "Ok", "panic"}
    /\ manager.result = "panic" => destroyed /\ manager.snapshot = {}

\* C14 witness: two devices were stopped, one stop failed, the request resolved to Ok
C14_Witness ==
  /\ manager.kind = "StopAllDevices"
  /\ manager.snapshot = {0, 1}
  /\ manager.errors # {}
  /\ manager.result = "Ok" /\ manager.resultId = 1
  /\ device_map = {0, 1}

\* every sender held outside the loop is gone: the DeviceManager with its communication
\* managers, the identification tasks, the forwarding tasks
OutsideSendersDropped ==
  /\ ~manager.alive
  /\ RunningTasks = {}
  /\ RunningForwarders = {}

\* C15 as stated: once every sender held outside the loop has been dropped, the
\* communication-event channel or the device-event channel is closed (so that the loop
\* takes its None arm and exits), unless the loop has already exited.
C15_ClosedWhenOutsideDropped ==
  OutsideSendersDropped => (CommClosed \/ EventClosed \/ loopPc = "exited")

\* the roster a client loop holds after the connector has delivered the server's outward
\* device messages in order (DeviceAdded inserts, DeviceRemoved removes and panics on an
\* index the roster does not hold)
RECURSIVE ClientRosterAfter(_, _)
ClientRosterAfter(r, out) ==
  IF out = << >> THEN r
  ELSE LET m == Head(out) IN
       ClientRosterAfter(
         IF m.type = "DeviceAdded" THEN [r EXCEPT !.roster = @ \cup {m.idx}]
         ELSE IF m.type = "DeviceRemoved"
              THEN [roster |-> r.roster \ {m.idx},
                    panicked |-> r.panicked \/ m.idx \notin r.roster]
              ELSE r,
         Tail(out))

\* no event in flight: both channels empty, no identification task under way, loop waiting
Quiescent ==
  /\ loopPc = "select"
  /\ device_comm = << >>
  /\ device_event = << >>
  /\ ping = 0
  /\ \A i \in Indices : tasks[i].pc \in {"none", "done"}

\* C12 (as stated): after quiescence the client's roster is the index set the server's
\* RequestDeviceList returns from the registry.
C12_RostersConverge ==
  Quiescent =>
    LET r == ClientRosterAfter([roster |-> {}, panicked |-> FALSE], server_sender)
    IN ~r.panicked /\ r.roster = ReaderView

\* C16 (as stated): when ScanningFinished goes out, the DeviceAdded of every device found
\* before it that identifies successfully has already gone out.
C16_AddedBeforeScanningFinished ==
  [][ ( /\ Len(server_sender') = Len(server_sender) + 1
        /\ server_sender'[Len(server_sender')].type = "ScanningFinished" )
      => \A i \in Indices :
           (tasks[i].pc # "none" /\ tasks[i].creator = "some") => i \in AddedOut ]_vars

\* C17: whenever the client loop waits for its next event, every index in the roster has
\* at least one event sender.
C17_RosterHasSenders ==
  client.pc = "select" =>
    \A i \in ClientIndices :
      client.devices[i] # NoName => client.device_event_senders[i] >= 1

C17_Witness ==
  /\ client.pc = "select"
  /\ client.devices[0] # NoName
  /\ client.device_event_senders[0] = 2
  /\ client.list_reply[0] = 1
  /\ client.devices[1] = NoName

\* the client loop takes a message of type t from the connector in this step
ConnectorTakes(t) ==
  /\ ConnectorHead(t)
  /\ client'.connector_receiver = Tail(client.connector_receiver)

\* the client loop takes a message of type t from the application in this step
ClientTakes(t) ==
  /\ ClientHead(t)
  /\ client'.client_receiver = Tail(client.client_receiver)

\* C18: handling DeviceRemoved(i) for i in the roster removes the roster entry and the
\* sender list of i in the same step and emits DeviceRemoved with the stored info; the
\* entries of the other indices are unchanged.
C18_RemovedFrame ==
  [][ LET i == Head(client.connector_receiver).idx IN
      (ConnectorTakes("DeviceRemoved") /\ client.devices[i] # NoName)
      => /\ client'.devices[i] = NoName
         /\ client'.device_event_senders[i] = 0
         /\ client'.event_sender =
              Append(client.event_sender, ClientEvent("DeviceRemoved", i, client.devices[i]))
         /\ client'.pc = "select"
         /\ \A j \in ClientIndices \ {i} :
              /\ client'.devices[j] = client.devices[j]
              /\ client'.device_event_senders[j] = client.device_event_senders[j] ]_vars

C18_Witness ==
  /\ client.event_sender # << >>
  /\ client.event_sender[Len(client.event_sender)] = ClientEvent("DeviceRemoved", 1, "b")
  /\ client.devices[1] = NoName
  /\ client.device_event_senders[1] = 0
  /\ client.devices[0] = "a"
  /\ client.device_event_senders[0] = 1

\* the DeviceAdded events of a device list, in list order
AddedEvents(list) ==
  [k \in 1 .. Len(list) |->
     ClientEvent("DeviceAdded", list[k].device_index, list[k].device_name)]

\* C19: a device list with n entries, from the connector or as HandleDeviceList, appends
\* exactly n DeviceAdded events in list order and leaves every listed index in the roster.
C19_DeviceListEvents ==
  [][ LET list == IF ConnectorTakes("DeviceList")
                  THEN Head(client.connector_receiver).infos
                  ELSE Head(client.client_receiver).infos
      IN (ConnectorTakes("DeviceList") \/ ClientTakes("HandleDeviceList"))
         => /\ client'.event_sender = client.event_sender \o AddedEvents(list)
            /\ \A k \in 1 .. Len(list) : client'.devices[list[k].device_index] # NoName ]_vars

C19_Witness ==
  /\ client.nconn = 1
  /\ client.nlist = 0
  /\ client.connector_receiver = << >>
  /\ client.event_sender = AddedEvents(<< Info(0, "a"), Info(0, "b") >>)
  /\ client.devices[0] = "b"

\* calls of the connector's send with message m
SendCount(m) ==
  Cardinality({ k \in 1 .. Len(client.connector_sent) : client.connector_sent[k] = m })

\* pair m has left the channel it was sent on
Dequeued(m) ==
  /\ m < client.next_msg
  /\ \A k \in 1 .. Len(client.client_receiver) : client.client_receiver[k].id # m
  /\ \A k \in 1 .. Len(client.device_message_receiver) :
       client.device_message_receiver[k] # m

\* C20: every dequeued message/reply-slot pair is sent through the connector exactly once
\* and its slot is set exactly once, with the reply the connector returned for that
\* message; no slot is set twice or with another message's reply.
C20_OneSendOneReply ==
  \A m \in MsgIds :
    /\ SendCount(m) <= 1
    /\ client.set_count[m] <= 1
    /\ client.slots[m] # NoSlot =>
         client.slots[m].for = m /\ client.slots[m] = client.returned[m]
    /\ Dequeued(m) =>
         /\ SendCount(m) = 1
         /\ IF client.pc = "sending" /\ client.cur = m
            THEN client.set_count[m] = 0
            ELSE client.set_count[m] = 1 /\ client.slots[m] # NoSlot
    /\ ~Dequeued(m) => SendCount(m) = 0 /\ client.set_count[m] = 0

C20_Witness ==
  /\ client.connector_sent = << 2, 1 >>
  /\ client.client_receiver = << >>
  /\ client.set_count[1] = 1
  /\ client.set_count[2] = 1
  /\ client.slots[1] = Reply(1, "err")
  /\ client.slots[2] = Reply(2, "ok")

\* positions of the broadcast history that hold an event of type t
SentOfType(t) == { k \in 1 .. Len(bridge.sent) : bridge.sent[k].type = t }

\* the bridge task takes an item from the adapter stream in this step
CentralTaken == bridge'.ncentral = bridge.ncentral + 1

\* the bridge task takes an item from the notification stream in this step
NotificationTaken == bridge'.nnotif = bridge.nnotif + 1

DisconnectedEvent == HardwareEvent("Disconnected", NoEndpoint, 0)

\* C23: DeviceDisconnected of the task's own peripheral sends Disconnected to the receivers
\* there are and ends the task, so Disconnected is the last event of the channel; central
\* events of other addresses send nothing and leave the task running.
C23_DisconnectedIsLast ==
  /\ [](\A k \in SentOfType("Disconnected") :
          k = Len(bridge.sent) /\ bridge.pc = "exited")
  /\ [][ /\ CentralTaken =>
              /\ bridge'.sent = bridge.sent
              /\ bridge'.received = bridge.received
              /\ IF bridge'.input = "own"
                 THEN bridge'.pc = IF ReceiverCount(bridge.subs) # 0
                                   THEN "sendDisconnected" ELSE "exited"
                 ELSE bridge'.pc = "select"
         /\ (bridge.pc = "sendDisconnected" /\ bridge'.pc # bridge.pc) =>
              /\ bridge'.pc = "exited"
              /\ ReceiverCount(bridge.subs) # 0 =>
                   /\ bridge'.sent = Append(bridge.sent, DisconnectedEvent)
                   /\ \A r \in Subscribers :
                        bridge.subs[r] = "live" =>
                          bridge'.received[r] = Append(bridge.received[r], DisconnectedEvent)
         /\ bridge.pc = "exited" => bridge'.pc = "exited" /\ bridge'.sent = bridge.sent ]_vars

C23_Witness ==
  /\ bridge.pc = "exited"
  /\ bridge.ncentral = 2
  /\ Len(bridge.sent) = 2
  /\ bridge.sent[1].type = "Notification"
  /\ bridge.sent[2] = DisconnectedEvent
  /\ \E r \in Subscribers : bridge.received[r] = bridge.sent

\* C24: a call on an endpoint that is not bound returns InvalidEndpoint(endpoint) and does
\* nothing on the peripheral; a call on a bound endpoint does exactly one operation of its
\* kind on the peripheral and turns a transport failure into DeviceSpecificError.
C24_EndpointCalls ==
  [][ bridge'.ncalls = bridge.ncalls + 1 =>
        LET c == bridge'.call IN
        IF c.endpoint \in bridge.endpoints
        THEN /\ bridge'.peripheral = [bridge.peripheral EXCEPT ![c.op] = @ + 1]
             /\ c.res = IF c.transport = "err" THEN "DeviceSpecificError" ELSE "Ok"
        ELSE /\ bridge'.peripheral = bridge.peripheral
             /\ c.res = "InvalidEndpoint"
             /\ c.arg = c.endpoint ]_vars

C24_Witness ==
  /\ bridge.endpoints = {"tx"}
  /\ bridge.call.op = "read"
  /\ bridge.call.endpoint = "rx"
  /\ bridge.call.res = "InvalidEndpoint"
  /\ \A o \in HardwareOps : bridge.peripheral[o] = 0

\* the n values of a sequence of events
EventIds(evs) == { evs[k].n : k \in 1 .. Len(evs) }

\* C25: a notification handled while the broadcast channel has no receiver is dropped: it
\* is never placed on the channel, no receiver created later gets it, and the task goes
\* back to its select.
C25_DroppedWithoutSubscribers ==
  /\ [](\A n \in bridge.dropped :
          /\ n \notin EventIds(bridge.sent)
          /\ \A r \in Subscribers : n \notin EventIds(bridge.received[r]))
  /\ [][ (bridge.pc = "check" /\ bridge'.pc # "check" /\ ReceiverCount(bridge.subs) = 0)
         => /\ bridge'.pc = "select"
            /\ bridge'.sent = bridge.sent
            /\ bridge'.received = bridge.received
            /\ bridge'.dropped = bridge.dropped \cup {bridge.cur.n} ]_vars

C25_Witness ==
  /\ bridge.dropped = {1}
  /\ bridge.pc = "select"
  /\ bridge.subs[1] = "live"
  /\ Len(bridge.sent) = 1
  /\ bridge.sent[1].n = 2
  /\ bridge.received[1] = bridge.sent

\* C26: a notification whose UUID is not in the map sends no event and leaves the task in
\* its select; the miss is logged the first time only; a notification with a known UUID is
\* handled as before, whatever misses came earlier.
C26_UnknownUuid ==
  /\ [](bridge.logged <= 1)
  /\ [][ (NotificationTaken /\ bridge'.input # "ended") =>
           LET endpoint == UuidMapGet(bridge.endpoints, bridge'.input) IN
           IF endpoint = NoEndpoint
           THEN /\ bridge'.pc = "select"
                /\ bridge'.sent = bridge.sent
                /\ bridge'.received = bridge.received
                /\ bridge'.logged = 1
                /\ bridge'.error_notification
           ELSE /\ bridge'.pc = "check"
                /\ bridge'.cur = HardwareEvent("Notification", endpoint, bridge'.nnotif)
                /\ bridge'.logged = bridge.logged ]_vars

C26_Witness ==
  /\ bridge.logged = 1
  /\ bridge.error_notification
  /\ bridge.endpoints = {"tx"}
  /\ bridge.pc = "select"
  /\ bridge.sent = << HardwareEvent("Notification", "tx", 2) >>

\* C21: a Disconnect message makes the loop call the connector's disconnect once, put the
\* result of that call in the state slot and leave run; nothing queued on any channel is
\* handled afterwards.
C21_DisconnectExits ==
  /\ [](client.disconnects <= 1)
  /\ [][ /\ ClientTakes("Disconnect") =>
              /\ client'.disconnects = client.disconnects + 1
              /\ client'.disconnect_result \in {"ok", "err"}
              /\ client'.state_slot = client'.disconnect_result
              /\ client'.pc = "exited"
              /\ client'.connector_receiver = client.connector_receiver
              /\ client'.device_message_receiver = client.device_message_receiver
         /\ client.pc = "exited" => client' = client ]_vars

C21_Witness ==
  /\ client.pc = "exited"
  /\ client.exit_reason = "disconnect"
  /\ client.disconnects = 1
  /\ client.state_slot = "err"
  /\ client.connector_receiver # << >>
  /\ client.client_receiver # << >>
  /\ client.device_message_receiver # << >>

\* C22 (as stated, safety half): run never ends for a reason other than the closure of the
\* application's or the connector's channel or a Disconnect message.
C22_EndsOnlyOnClosureOrDisconnect ==
  client.pc \in {"exited", "panicked"} => client.exit_reason \in {"closure", "disconnect"}

\* entries of a device list that carry index i
EntriesOf(list, i) == Cardinality({ k \in 1 .. Len(list) : list[k].device_index = i })

\* C27: every DeviceMessageInfo that arrives adds exactly one sender under its index and
\* keeps the senders there were; RequestDeviceList hands out one handle per roster entry,
\* leaves the roster unchanged and sends no event.
C27_OneSenderPerArrival ==
  [][ /\ ConnectorTakes("DeviceAdded") =>
           client'.device_event_senders =
             [client.device_event_senders
                EXCEPT ![Head(client.connector_receiver).idx] = @ + 1]
      /\ ConnectorTakes("DeviceList") =>
           \A i \in ClientIndices :
             client'.device_event_senders[i] =
               client.device_event_senders[i]
                 + EntriesOf(Head(client.connector_receiver).infos, i)
      /\ ClientTakes("HandleDeviceList") =>
           \A i \in ClientIndices :
             client'.device_event_senders[i] =
               client.device_event_senders[i]
                 + EntriesOf(Head(client.client_receiver).infos, i)
      /\ ClientTakes("RequestDeviceList") =>
           /\ \A i \in ClientIndices :
                LET n == IF client.devices[i] # NoName THEN 1 ELSE 0 IN
                /\ client'.device_event_senders[i] = client.device_event_senders[i] + n
                /\ client'.list_reply[i] = n
           /\ client'.devices = client.devices
           /\ client'.event_sender = client.event_sender ]_vars

C27_Witness ==
  /\ client.devices[0] = "b"
  /\ client.device_event_senders[0] = 3
  /\ client.list_reply[0] = 1
  /\ client.list_reply[1] = 0
  /\ Len(client.event_sender) = 2
  /\ client.pc = "select"

\* pairs handed to the connector whose reply slot has not been set
Outstanding ==
  { k \in 1 .. Len(client.connector_sent) : client.set_count[client.connector_sent[k]] = 0 }

\* C28: pairs of device handles reach the connector in the order they were put on the
\* device-message channel, and a pair is handed to the connector only when the slot of
\* every earlier one has been set.
C28_InOrderOneOutstanding ==
  /\ \A j, k \in 1 .. Len(client.connector_sent) :
       ( /\ j < k
         /\ client.connector_sent[j] \in client.device_ids
         /\ client.connector_sent[k] \in client.device_ids )
       => client.connector_sent[j] < client.connector_sent[k]
  /\ Outstanding \subseteq {Len(client.connector_sent)}
  /\ Outstanding # {} <=> client.pc = "sending"

C28_Witness ==
  /\ client.device_ids = {1, 2}
  /\ client.connector_sent = << 1, 2 >>
  /\ client.pc = "sending"
  /\ client.cur = 2
  /\ client.set_count[1] = 1

\* C29 (as stated): once the loop has handled the Removed event of index i, and so sent
\* DeviceRemoved(i) outward, i is not in the registry the loop maintains.
C29_RemovedStaysOut ==
  \A i \in RemovedOut : i \notin WriterView

\* C30 (as stated): DeviceRemoved(i) for an index that is not in the roster leaves the
\* loop waiting for its next event, with roster and sender lists unchanged.
C30_RemovedUnknownIgnored ==
  [][ ( /\ ConnectorTakes("DeviceRemoved")
        /\ client.devices[Head(client.connector_receiver).idx] = NoName )
      => /\ client'.pc = "select"
         /\ client'.devices = client.devices
         /\ client'.device_event_senders = client.device_event_senders ]_vars

\* C31 (as stated): the bridge task has ended only if the last item it took was the
\* DeviceDisconnected of its own peripheral; in particular a send that finds the last
\* receiver gone since the count was read does not end it.
C31_EndsOnlyOnOwnDisconnect ==
  bridge.pc = "exited" => bridge.input = "own"

====
